---------------------------- MODULE Spec2Model ----------------------------
(***************************************************************************)
(* Model of the goal notifier of nhl_inky (src/goal_notifier.py):          *)
(* GoalNotifier.check_for_goals, get_active_flyers_games and the poll loop *)
(* monitor_games, together with the remote NHL API they poll (scoreboard   *)
(* and per-game play-by-play feed).                                        *)
(***************************************************************************)
EXTENDS Integers, Sequences, FiniteSets, TLC

\* Number of plays the feeds receive on a day with two favorite-team games.
MaxPlays == 2

\* Number of plays the feed receives on a day with one favorite-team game.
MaxPlaysOne == 4

VARIABLES
    gameState,       \* remote: gameState of each scoreboard game
    feed,            \* remote: play-by-play play list of each game
    notified_goals,  \* self.notified_goals: game_id -> set of event ids
    pc,              \* position of monitor_games
    active_games,    \* monitor_games: active_games of the current tick
    todo_games,      \* monitor_games: games of "for game in active_games" not finished
    new_goals,       \* monitor_games: goals of "for goal in new_goals" not dispatched
    escaped,         \* the exception that left monitor_games, "" when none
    environ,         \* the process environment and arguments main() starts with
    smtp_config,     \* self.smtp_config: whether the mail server will accept it
    scoreboard,      \* get_active_flyers_games: what the tick's scoreboard request gave
    ret_count,       \* history: times (game, event) was returned by check_for_goals
    sms_count,       \* history: times send_sms was called for (game, event)
    last_sms,        \* history: the last send_sms call and its return value
    tick_log,        \* history: the check_for_goals calls of the current tick
    scanned          \* history: game_id -> length of the last snapshot scanned to the end

vars == << gameState, feed, notified_goals, pc, active_games, todo_games,
           new_goals, escaped, environ, smtp_config, scoreboard, ret_count,
           sms_count, last_sms, tick_log, scanned >>

-----------------------------------------------------------------------------
(* The remote data source *)

\* NHLClient(favorite_team="PHI")
favorite_team == "PHI"

\* The day's scoreboard, in the order the API lists the games.
Scoreboard ==
    << [id |-> 1, awayTeam |-> [abbrev |-> "PHI", id |-> 4],
                  homeTeam |-> [abbrev |-> "NJD", id |-> 1]],
       [id |-> 2, awayTeam |-> [abbrev |-> "PIT", id |-> 5],
                  homeTeam |-> [abbrev |-> "PHI", id |-> 4]],
       [id |-> 3, awayTeam |-> [abbrev |-> "BOS", id |-> 6],
                  homeTeam |-> [abbrev |-> "NYR", id |-> 3]] >>

Games == {Scoreboard[i].id : i \in DOMAIN Scoreboard}

GameInfo(game_id) ==
    CHOOSE game \in {Scoreboard[i] : i \in DOMAIN Scoreboard} : game.id = game_id

GameStates == {"FUT", "LIVE", "CRIT", "FINAL", "OFF"}

EventIds == 1..(MaxPlays + MaxPlaysOne)

Range(s) == {s[i] : i \in DOMAIN s}

\* NHLClient.is_favorite_team_game
is_favorite_team_game(game) ==
    \/ game.awayTeam.abbrev = favorite_team
    \/ game.homeTeam.abbrev = favorite_team

FavGames == {g \in Games : is_favorite_team_game(GameInfo(g))}

TotalPlays == Len(feed[1]) + Len(feed[2])

\* Game 2 is OFF from the start on a day with one favorite-team game to play.
PlayLimit == IF gameState[2] = "OFF" THEN MaxPlaysOne ELSE MaxPlays

\* A play as the API serves it. details_ok and period_ok say that the
\* "details" and "periodDescriptor" members are objects (not null).
Play(event_id, type, team_id) ==
    [eventId |-> event_id, typeDescKey |-> type, eventOwnerTeamId |-> team_id,
     details_ok |-> TRUE, period_ok |-> TRUE]

\* The play-by-play document of a game as one response carries it: the feed,
\* with the play at index bad (0: none) malformed in the member named by what.
Payload(game_id, bad, what) ==
    [awayTeam |-> GameInfo(game_id).awayTeam,
     homeTeam |-> GameInfo(game_id).homeTeam,
     plays |-> [i \in DOMAIN feed[game_id] |->
                  IF i = bad
                  THEN IF what = "details"
                       THEN [feed[game_id][i] EXCEPT !.details_ok = FALSE]
                       ELSE [feed[game_id][i] EXCEPT !.period_ok = FALSE]
                  ELSE feed[game_id][i]]]

NoSms == [game |-> 0, eventId |-> 0, sent |-> FALSE]

-----------------------------------------------------------------------------
(* GoalNotifier.check_for_goals *)

Extend(f, k, v) == [x \in DOMAIN f \cup {k} |-> IF x = k THEN v ELSE f[x]]

IsNewGoal_NoDedup(goal, flyers_team_id, notified) ==
    goal.eventOwnerTeamId = flyers_team_id

IsNewGoal_NoOwner(goal, flyers_team_id, notified) ==
    goal.eventId \notin notified

\* line 236: the test that makes a goal a new goal
IsNewGoal(goal, flyers_team_id, notified) ==
    /\ goal.eventOwnerTeamId = flyers_team_id
    /\ goal.eventId \notin notified

AppendGoal_Front(found, goal) == << goal >> \o found

\* line 237: new_goals.append(goal)
AppendGoal(found, goal) == Append(found, goal)

\* lines 232-238: the scan of the goals. goal.get('details', {}).get(...)
\* raises on a goal whose details member is null.
RECURSIVE ScanGoals(_, _, _, _)
ScanGoals(goals, flyers_team_id, notified, found) ==
    IF goals = << >>
    THEN [raised |-> FALSE, new_goals |-> found, notified |-> notified]
    ELSE LET goal == Head(goals) IN
         IF ~goal.details_ok
         THEN [raised |-> TRUE, new_goals |-> found, notified |-> notified]
         ELSE IF IsNewGoal(goal, flyers_team_id, notified)
              THEN ScanGoals(Tail(goals), flyers_team_id,
                             notified \cup {goal.eventId},
                             AppendGoal(found, goal))
              ELSE ScanGoals(Tail(goals), flyers_team_id, notified, found)

\* The id of the home record whichever side the favorite team is.
FlyersTeamId_Home(data) == data.homeTeam.id

\* lines 214-223: the favorite team's id in this game's payload, 0 when the
\* favorite team is on neither side
FlyersTeamId(data) ==
    IF data.awayTeam.abbrev = "PHI" THEN data.awayTeam.id
    ELSE IF data.homeTeam.abbrev = "PHI" THEN data.homeTeam.id
    ELSE 0

GoalsOf_AllPlays(plays) == plays

\* line 226
GoalsOf(plays) == SelectSeq(plays, LAMBDA p : p.typeDescKey = "goal")

\* line 230: notified = self.notified_goals.get(game_id, set()). For a game
\* that has an entry this is the entry's own set object, so the scan's
\* notified.add() changes self.notified_goals at once; for a game without
\* one it is a fresh set that line 241 stores.
AfterRaise(ng, game_id, notified) ==
    IF game_id \in DOMAIN ng THEN [ng EXCEPT ![game_id] = notified] ELSE ng

StoreNotified_Skip(ng, game_id, notified) == ng

StoreNotified_Forget(ng, game_id, notified) == Extend(<< >>, game_id, notified)

\* line 241: self.notified_goals[game_id] = notified
StoreNotified(ng, game_id, notified) == Extend(ng, game_id, notified)

\* lines 245-247: except Exception: print, return []
OnException(ng) ==
    [result |-> << >>, notified_goals |-> ng, outcome |-> "raised"]

\* The early return with an entry stored for the game all the same.
NotFlyersGame_Entry(ng, game_id) ==
    [result |-> << >>,
     notified_goals |-> Extend(ng, game_id,
                               IF game_id \in DOMAIN ng THEN ng[game_id] ELSE {}),
     outcome |-> "returned"]

\* lines 222-223: else: return []  (not a Flyers game)
NotFlyersGame(ng, game_id) ==
    [result |-> << >>, notified_goals |-> ng, outcome |-> "returned"]

\* One set of notified EventIds for all games.
GetNotified_AnyGame(ng, game_id) == UNION {ng[h] : h \in DOMAIN ng}

\* line 230: self.notified_goals.get(game_id, set())
GetNotified(ng, game_id) == IF game_id \in DOMAIN ng THEN ng[game_id] ELSE {}

\* The whole of check_for_goals on one response: ok is FALSE when
\* requests.get / raise_for_status / json() raised.
check_for_goals(game_id, ok, data, ng) ==
    IF ~ok
    THEN OnException(ng)
    ELSE IF FlyersTeamId(data) = 0
    THEN NotFlyersGame(ng, game_id)
    ELSE LET notified == GetNotified(ng, game_id)
             scan == ScanGoals(GoalsOf(data.plays), FlyersTeamId(data),
                               notified, << >>)
         IN  IF scan.raised
             THEN OnException(AfterRaise(ng, game_id, scan.notified))
             ELSE [result |-> scan.new_goals,
                   notified_goals |-> StoreNotified(ng, game_id, scan.notified),
                   outcome |-> "returned"]

-----------------------------------------------------------------------------
(* GoalNotifier.get_active_flyers_games *)

\* The filter without line 264's gameState test.
get_active_flyers_games_AnyState ==
    SelectSeq(Scoreboard, LAMBDA game : is_favorite_team_game(game))

get_active_flyers_games ==
    SelectSeq(Scoreboard,
              LAMBDA game : /\ is_favorite_team_game(game)
                            /\ gameState[game.id] \in {"LIVE", "CRIT"})

-----------------------------------------------------------------------------
InitProgram ==
    /\ feed = [g \in Games |-> IF g \in FavGames THEN << >>
                               ELSE << Play(1, "goal", 6) >>]
    /\ notified_goals = << >>
    /\ pc = "top"
    /\ active_games = << >>
    /\ todo_games = << >>
    /\ new_goals = << >>
    /\ escaped = ""
    /\ environ = "complete"
    /\ smtp_config = "accepted"
    /\ scoreboard = "none"
    /\ ret_count = [g \in Games |-> [e \in EventIds |-> 0]]
    /\ sms_count = [g \in Games |-> [e \in EventIds |-> 0]]
    /\ last_sms = NoSms
    /\ tick_log = << >>
    /\ scanned = << >>

\* A day with two favorite-team games to play and a game of other teams.
Init ==
    /\ gameState = [g \in Games |-> IF g \in FavGames THEN "FUT" ELSE "LIVE"]
    /\ InitProgram

\* A day on which game 2 is over and game 1 is to play.
InitOne ==
    /\ gameState = [g \in Games |-> IF g = 1 THEN "FUT"
                                   ELSE IF g = 2 THEN "OFF" ELSE "LIVE"]
    /\ InitProgram

Running == pc \in {"top", "check", "send", "sleep"}

\* The program reads the remote side in two places: the scoreboard at the top
\* of a tick and a game's feed in check_for_goals. A remote change at any
\* other moment is seen exactly as if it happened just before the next read,
\* so the remote side moves only when the program is about to read.
Observing == pc \in {"top", "check"}

env_vars == << gameState, feed >>
config_vars == << environ, smtp_config >>
hist_vars == << ret_count, sms_count, last_sms, tick_log, scanned >>

(* The remote side *)

\* A game starts, turns critical (late game) or ends.
GameStateChange(g) ==
    /\ Observing
    /\ g \in FavGames
    /\ \E s \in GameStates :
          /\ << gameState[g], s >> \in { << "FUT", "LIVE" >>, << "LIVE", "CRIT" >>,
                                        << "LIVE", "FINAL" >>, << "CRIT", "FINAL" >> }
          /\ gameState' = [gameState EXCEPT ![g] = s]
    /\ UNCHANGED << feed, notified_goals, pc, active_games, todo_games,
                    new_goals, escaped, scoreboard >>
    /\ UNCHANGED hist_vars
    /\ UNCHANGED config_vars

\* The plays a game's feed receives: a goal of either side, and a play of
\* the favorite team that is no goal.
PlayKinds(g) ==
    LET data == Payload(g, 0, "details")
        other == IF data.awayTeam.abbrev = "PHI" THEN data.homeTeam.id
                 ELSE data.awayTeam.id
    IN  { << "goal", FlyersTeamId(data) >>, << "goal", other >>,
          << "shot-on-goal", FlyersTeamId(data) >> }

\* A play is recorded in a running game: a goal of either side, or another play.
AppendPlay(g) ==
    /\ Observing
    /\ g \in FavGames
    /\ gameState[g] \in {"LIVE", "CRIT"}
    /\ TotalPlays < PlayLimit
    /\ \E kind \in PlayKinds(g) :
          feed' = [feed EXCEPT ![g] = Append(@, Play(Len(@) + 1, kind[1], kind[2]))]
    /\ UNCHANGED << gameState, notified_goals, pc, active_games, todo_games,
                    new_goals, escaped, scoreboard >>
    /\ UNCHANGED hist_vars
    /\ UNCHANGED config_vars

-----------------------------------------------------------------------------
(* GoalNotifier.monitor_games *)

Bump(count, g, e) == [count EXCEPT ![g][e] = IF @ < 2 THEN @ + 1 ELSE @]

RECURSIVE BumpAll(_, _, _)
BumpAll(count, g, goals) ==
    IF goals = << >> THEN count
    ELSE BumpAll(Bump(count, g, Head(goals).eventId), g, Tail(goals))

\* lines 293 and 312: the game just handled leaves the for loop; after the
\* last game the tick reaches time.sleep.
NextGame ==
    /\ todo_games' = Tail(todo_games)
    /\ pc' = IF Tail(todo_games) = << >> THEN "sleep" ELSE "check"

\* line 288: a tick starts. The scoreboard request succeeds, fails with a
\* RequestException (get_scoreboard returns {}), or answers a document whose
\* "games" member is null, on which line 262 raises.
GetActiveGames ==
    /\ pc = "top"
    /\ \E response \in {"ok", "error", "malformed"} :
          /\ scoreboard' = response
          /\ IF response = "malformed"
             THEN /\ pc' = "crashed"
                  /\ escaped' = "get_active_flyers_games"
                  /\ UNCHANGED << active_games, todo_games >>
             ELSE LET active == IF response = "ok" THEN get_active_flyers_games
                                ELSE << >>
                      ids == [i \in DOMAIN active |-> active[i].id]
                  IN  /\ active_games' = ids
                      /\ todo_games' = ids
                      /\ pc' = IF ids = << >> THEN "sleep" ELSE "check"
                      /\ UNCHANGED escaped
    /\ UNCHANGED << gameState, feed, notified_goals, new_goals >>
    /\ UNCHANGED hist_vars
    /\ UNCHANGED config_vars

\* line 301: check_for_goals for the next active game, on the response this
\* request gets.
CheckGame ==
    /\ pc = "check"
    /\ LET g == Head(todo_games) IN
       \E ok \in BOOLEAN, bad \in 0..Len(feed[g]),
          what \in {"details", "periodDescriptor"} :
          /\ ~ok => bad = 0
          /\ bad = 0 => what = "details"
          /\ LET data == Payload(g, bad, what)
                 r == check_for_goals(g, ok, data, notified_goals)
             IN  /\ notified_goals' = r.notified_goals
                 /\ tick_log' = Append(tick_log, [game |-> g, outcome |-> r.outcome,
                                                  goals |-> Len(r.result)])
                 /\ ret_count' = BumpAll(ret_count, g, r.result)
                 /\ scanned' = IF r.outcome = "returned"
                               THEN Extend(scanned, g, Len(data.plays))
                               ELSE scanned
                 /\ new_goals' = r.result
                 /\ IF r.result = << >> THEN NextGame
                    ELSE pc' = "send" /\ UNCHANGED todo_games
    /\ UNCHANGED << gameState, feed, active_games, escaped, scoreboard,
                    sms_count, last_sms >>
    /\ UNCHANGED config_vars

\* lines 162-196: format_goal_message. goal.get('periodDescriptor', {}).get
\* raises on a goal whose periodDescriptor member is null; a failed
\* get_player_name yields "Unknown Player" and raises nothing.
format_goal_message(goal, game_id) ==
    IF goal.period_ok THEN "message" ELSE "AttributeError"

\* lines 98-114: what send_sms can return. It logs in with self.smtp_config
\* and returns False on any exception, so with a configuration the server
\* rejects it returns False every time.
send_sms == IF smtp_config = "accepted" THEN BOOLEAN ELSE {FALSE}

\* lines 303-310: the next new goal is formatted and handed to send_sms,
\* which returns True or False and raises nothing.
Dispatch ==
    /\ pc = "send"
    /\ LET g == Head(todo_games)
           goal == Head(new_goals)
       IN  IF format_goal_message(goal, g) = "AttributeError"
           THEN /\ pc' = "crashed"
                /\ escaped' = "format_goal_message"
                /\ UNCHANGED << todo_games, new_goals, sms_count, last_sms >>
           ELSE /\ \E sent \in send_sms :
                      last_sms' = [game |-> g, eventId |-> goal.eventId,
                                   sent |-> sent]
                /\ sms_count' = Bump(sms_count, g, goal.eventId)
                /\ new_goals' = Tail(new_goals)
                /\ IF Tail(new_goals) = << >> THEN NextGame
                   ELSE UNCHANGED << pc, todo_games >>
                /\ UNCHANGED escaped
    /\ UNCHANGED << gameState, feed, notified_goals, active_games, scoreboard,
                    ret_count, tick_log, scanned >>
    /\ UNCHANGED config_vars

\* line 312: time.sleep(check_interval) returns.
Sleep ==
    /\ pc = "sleep"
    /\ pc' = "top"
    /\ tick_log' = << >>
    /\ scoreboard' = "none"
    /\ UNCHANGED << gameState, feed, notified_goals, active_games, todo_games,
                    new_goals, escaped, ret_count, sms_count, last_sms, scanned >>
    /\ UNCHANGED config_vars

\* lines 314-316: Ctrl+C. Python raises KeyboardInterrupt in the main thread
\* wherever it is (in a request, between two statements of a tick, in the
\* sleep); "except Exception" of check_for_goals and send_sms does not catch
\* it, the handler around the loop does.
Interrupt ==
    /\ Running
    /\ pc' = "stopped"
    /\ UNCHANGED << gameState, feed, notified_goals, active_games, todo_games,
                    new_goals, escaped, scoreboard >>
    /\ UNCHANGED hist_vars
    /\ UNCHANGED config_vars

\* Ctrl+C while check_for_goals scans the goals (lines 232-238), after n goals:
\* what the scan added to an existing entry's set stays, nothing is returned.
InterruptInScan ==
    /\ pc = "check"
    /\ LET g == Head(todo_games)
           data == Payload(g, 0, "details")
           goals == GoalsOf(data.plays)
       IN  \E n \in 1..Len(goals) :
              LET notified == IF g \in DOMAIN notified_goals
                              THEN notified_goals[g] ELSE {}
                  scan == ScanGoals(SubSeq(goals, 1, n), FlyersTeamId(data),
                                    notified, << >>)
              IN  notified_goals' = AfterRaise(notified_goals, g, scan.notified)
    /\ pc' = "stopped"
    /\ tick_log' = Append(tick_log, [game |-> Head(todo_games),
                                     outcome |-> "interrupted", goals |-> 0])
    /\ UNCHANGED << gameState, feed, active_games, todo_games, new_goals,
                    escaped, scoreboard, ret_count, sms_count, last_sms, scanned >>
    /\ UNCHANGED config_vars

Next ==
    \/ \E g \in Games : GameStateChange(g)
    \/ \E g \in Games : AppendPlay(g)
    \/ GetActiveGames
    \/ CheckGame
    \/ Dispatch
    \/ Sleep
    \/ Interrupt
    \/ InterruptInScan

Spec == Init /\ [][Next]_vars

\* check_for_goals as a method of its own: a caller other than monitor_games
\* applies it to any game of the day, also one monitor_games would filter
\* out, and receives the list in new_goals.
CallCheckForGoals(g) ==
    /\ pc = "top"
    /\ \E ok \in BOOLEAN, bad \in 0..Len(feed[g]),
          what \in {"details", "periodDescriptor"} :
          /\ ~ok => bad = 0
          /\ bad = 0 => what = "details"
          /\ LET data == Payload(g, bad, what)
                 r == check_for_goals(g, ok, data, notified_goals)
             IN  /\ notified_goals' = r.notified_goals
                 /\ new_goals' = r.result
                 /\ tick_log' = << [game |-> g, outcome |-> r.outcome,
                                    goals |-> Len(r.result)] >>
                 /\ ret_count' = BumpAll(ret_count, g, r.result)
                 /\ scanned' = IF r.outcome = "returned"
                               THEN Extend(scanned, g, Len(data.plays))
                               ELSE scanned
    /\ UNCHANGED << gameState, feed, pc, active_games, todo_games, escaped,
                    scoreboard, sms_count, last_sms >>
    /\ UNCHANGED config_vars

\* The feeds the game of the two other teams may have on that day.
OtherGameFeeds ==
    { << >>,
      << Play(1, "goal", 6) >>,
      << Play(1, "goal", 6), Play(2, "goal", 3) >>,
      << Play(1, "shot-on-goal", 3), Play(2, "goal", 3) >> }

\* An evening with the three games in play.
InitCalls ==
    /\ gameState = [g \in Games |-> "LIVE"]
    /\ \E plays \in OtherGameFeeds :
          feed = [g \in Games |-> IF g \in FavGames THEN << >> ELSE plays]
    /\ notified_goals = << >>
    /\ pc = "top"
    /\ active_games = << >>
    /\ todo_games = << >>
    /\ new_goals = << >>
    /\ escaped = ""
    /\ environ = "complete"
    /\ smtp_config = "accepted"
    /\ scoreboard = "none"
    /\ ret_count = [g \in Games |-> [e \in EventIds |-> 0]]
    /\ sms_count = [g \in Games |-> [e \in EventIds |-> 0]]
    /\ last_sms = NoSms
    /\ tick_log = << >>
    /\ scanned = << >>

NextCalls ==
    \/ \E g \in Games : AppendPlay(g)
    \/ \E g \in Games : CallCheckForGoals(g)

SpecCalls == InitCalls /\ [][NextCalls]_vars

SpecOne == InitOne /\ [][Next]_vars

\* What main() can find when the process starts: the four SMTP variables set
\* to an account the server accepts ("complete"), set to credentials it
\* rejects or with a target number that is none ("wrong"), set with an
\* SMTP_PORT that is no number ("bad_port"), or not all set ("missing").
Environments == {"complete", "wrong", "bad_port", "missing"}

\* lines 319-337 with 24-86: main() reads the target and the interval,
\* constructs the GoalNotifier and calls monitor_games. With the four
\* variables set, _get_smtp_config returns them as they are, and int(port)
\* raises ValueError on a port that is no number. Otherwise it asks on the
\* terminal and takes what is typed; input() raises EOFError without one.
\* Nothing is validated and no connection is tried.
Main ==
    /\ pc = "main"
    /\ \/ /\ environ = "complete"
          /\ smtp_config' = "accepted"
          /\ pc' = "top"
       \/ /\ environ = "wrong"
          /\ smtp_config' = "rejected"
          /\ pc' = "top"
       \/ /\ environ = "bad_port"
          /\ pc' = "exited"
          /\ UNCHANGED smtp_config
       \/ /\ environ = "missing"
          /\ \/ /\ \E typed \in {"accepted", "rejected"} : smtp_config' = typed
                /\ pc' = "top"
             \/ /\ pc' = "exited"
                /\ UNCHANGED smtp_config
    /\ UNCHANGED << gameState, feed, notified_goals, active_games, todo_games,
                    new_goals, escaped, environ, scoreboard >>
    /\ UNCHANGED hist_vars

\* The process at its start, on a day on which game 1 is over and game 2 is
\* to play.
InitMain ==
    /\ gameState = [g \in Games |-> IF g = 1 THEN "FINAL"
                                   ELSE IF g = 2 THEN "FUT" ELSE "LIVE"]
    /\ feed = [g \in Games |-> IF g \in FavGames THEN << >>
                               ELSE << Play(1, "goal", 6) >>]
    /\ notified_goals = << >>
    /\ pc = "main"
    /\ active_games = << >>
    /\ todo_games = << >>
    /\ new_goals = << >>
    /\ escaped = ""
    /\ environ \in Environments
    /\ smtp_config = "none"
    /\ scoreboard = "none"
    /\ ret_count = [g \in Games |-> [e \in EventIds |-> 0]]
    /\ sms_count = [g \in Games |-> [e \in EventIds |-> 0]]
    /\ last_sms = NoSms
    /\ tick_log = << >>
    /\ scanned = << >>

NextMain == Main \/ Next

SpecMain == InitMain /\ [][NextMain]_vars

-----------------------------------------------------------------------------
(* Vocabulary of the properties *)

Last(s) == s[Len(s)]

EventIdsOf(goals) == [i \in DOMAIN goals |-> goals[i].eventId]

\* The play is owned by the favorite team's side of game g.
OwnedByFavorite(g, play) ==
    \E team \in {GameInfo(g).awayTeam, GameInfo(g).homeTeam} :
        team.abbrev = favorite_team /\ play.eventOwnerTeamId = team.id

IsNotified(g, e) == g \in DOMAIN notified_goals /\ e \in notified_goals[g]

\* The favorite team's goals in the feed of game g.
FavoriteGoals(g) ==
    SelectSeq(feed[g], LAMBDA p : p.typeDescKey = "goal" /\ OwnedByFavorite(g, p))

\* This step is a check_for_goals call for game g that ended with outcome o.
Called(g, o) ==
    /\ pc = "check"
    /\ Head(todo_games) = g
    /\ Len(tick_log') = Len(tick_log) + 1
    /\ Last(tick_log').outcome = o

-----------------------------------------------------------------------------
(* Properties *)

\* C1: an event is returned by check_for_goals at most once over all calls,
\* and no call returns an event that is already in notified_goals[gameId].
C1_AtMostOnce ==
    [][\A g \in Games, e \in EventIds :
          /\ ret_count'[g][e] <= 1
          /\ IsNotified(g, e) => ret_count'[g][e] = ret_count[g][e]]_vars

\* Game 1's goal 1 was returned once and a later tick scanned game 1 again
\* (returning nothing), after a call for game 2.
C1_Witness ==
    /\ ret_count[1][1] = 1
    /\ ret_count[2][1] = 1
    /\ \E i \in DOMAIN tick_log :
          tick_log[i] = [game |-> 1, outcome |-> "returned", goals |-> 0]

\* C2: every favorite-team goal in the feed of a favorite-team game is handed
\* to send_sms exactly once: never twice, and once the game is over and the
\* loop is at the top of a tick (the game was polled while it ran) no goal of
\* its feed is left without its SMS.
C2_NotifiedExactlyOnce ==
    \A g \in FavGames : \A i \in DOMAIN FavoriteGoals(g) :
        LET e == FavoriteGoals(g)[i].eventId IN
        /\ sms_count[g][e] <= 1
        /\ (pc = "top" /\ gameState[g] = "FINAL" /\ g \in DOMAIN scanned)
              => sms_count[g][e] = 1

\* C3: a check_for_goals call that fails returns an empty list and leaves
\* notified_goals as it was before the call.
C3_FailSoft ==
    [][\A g \in Games :
          Called(g, "raised") =>
              (new_goals' = << >> /\ notified_goals' = notified_goals)]_vars

\* C4: an interrupt never leaves a tick partway: when the loop has stopped, no
\* goal that the tick marked in notified_goals still waits for its send_sms.
C4_InterruptBetweenTicks ==
    pc = "stopped" =>
        \A i \in DOMAIN new_goals :
            ~ (/\ IsNotified(Head(todo_games), new_goals[i].eventId)
               /\ sms_count[Head(todo_games)][new_goals[i].eventId] = 0)

\* C5: no error ends the loop: no exception leaves monitor_games.
C5_LoopSurvivesErrors == pc # "crashed" /\ escaped = ""

\* C6: in a tick with two or more active games, a game whose play-by-play
\* fetch fails or answers a malformed document costs only itself: no exception
\* from handling a game leaves the tick, a failed call contributes no goal,
\* the games are checked one after the other in the order of active_games
\* whatever a call ended as, a tick that reaches the sleep has checked all of
\* them, and between two games every goal returned so far has had its send_sms.
C6_FailureIsolation ==
    Len(active_games) >= 2 =>
        /\ escaped # "format_goal_message"
        /\ Len(tick_log) <= Len(active_games)
        /\ \A i \in DOMAIN tick_log :
              /\ tick_log[i].game = active_games[i]
              /\ tick_log[i].outcome = "raised" => tick_log[i].goals = 0
        /\ pc = "check" => Head(todo_games) = active_games[Len(tick_log) + 1]
        /\ pc = "sleep" => Len(tick_log) = Len(active_games)
        /\ pc \in {"check", "sleep"} =>
              \A g \in Games, e \in EventIds : ret_count[g][e] = sms_count[g][e]

\* C7: send_sms is attempted at most once per (game, event), whatever it
\* returns, and only for an event that is already in notified_goals; every
\* goal that waits for its send_sms is already marked.
C7_MarkBeforeDeliver ==
    /\ \A g \in Games, e \in EventIds :
          /\ sms_count[g][e] <= 1
          /\ sms_count[g][e] = 1 => IsNotified(g, e)
    /\ pc = "send" =>
          \A i \in DOMAIN new_goals :
              IsNotified(Head(todo_games), new_goals[i].eventId)

\* The delivery of game 1's goal 1 failed, and a later tick scanned game 1
\* again: nothing was returned and the SMS was not attempted a second time.
C7_Witness ==
    /\ last_sms = [game |-> 1, eventId |-> 1, sent |-> FALSE]
    /\ sms_count[1][1] = 1
    /\ pc = "sleep"
    /\ tick_log = << [game |-> 1, outcome |-> "returned", goals |-> 0] >>

\* C8: no event owned by another team than the favorite team of its game is
\* ever returned, waits for dispatch, or is in notified_goals.
C8_OwnerFilter ==
    /\ \A g \in Games : \A i \in DOMAIN feed[g] :
          (\/ ret_count[g][feed[g][i].eventId] > 0
           \/ IsNotified(g, feed[g][i].eventId))
              => OwnedByFavorite(g, feed[g][i])
    /\ \A i \in DOMAIN new_goals :
          OwnedByFavorite(Head(todo_games), new_goals[i])
    /\ \A g \in DOMAIN notified_goals :
          notified_goals[g] \subseteq {feed[g][i].eventId : i \in DOMAIN feed[g]}

\* A scan of game 1 went over an opponent's goal (event 1) and a goal of the
\* favorite team (event 2): only the latter was returned and marked.
C8_Witness ==
    /\ Len(feed[1]) >= 2
    /\ feed[1][1].typeDescKey = "goal" /\ ~OwnedByFavorite(1, feed[1][1])
    /\ 1 \in DOMAIN scanned /\ scanned[1] >= 2
    /\ notified_goals[1] = {2}
    /\ ret_count[1][1] = 0 /\ ret_count[1][2] = 1

\* What a successful call for game g has to return.
ExpectedNewGoals(g) ==
    SelectSeq(feed[g], LAMBDA p : /\ p.typeDescKey = "goal"
                                  /\ OwnedByFavorite(g, p)
                                  /\ ~IsNotified(g, p.eventId))

\* The scenario's snapshot: favorite goals 1 and 2, opponent goal 3.
Snapshot3 == << Play(1, "goal", 4), Play(2, "goal", 4), Play(3, "goal", 1) >>

\* C9: a successful call returns exactly the plays that are goals, are owned by
\* the favorite team and are not in notified_goals[gameId] at the call, in the
\* feed's order; on the scenario's snapshots it returns [1,2], [] and [4].
C9_ExactResult ==
    [][\A g \in Games :
          Called(g, "returned") =>
              /\ EventIdsOf(new_goals') = EventIdsOf(ExpectedNewGoals(g))
              /\ (feed[g] = Snapshot3 /\ g \notin DOMAIN notified_goals)
                    => EventIdsOf(new_goals') = << 1, 2 >>
              /\ (feed[g] = Snapshot3 /\ IsNotified(g, 1) /\ IsNotified(g, 2))
                    => EventIdsOf(new_goals') = << >>
              /\ (feed[g] = Append(Snapshot3, Play(4, "goal", 4))
                    /\ g \in DOMAIN notified_goals /\ notified_goals[g] = {1, 2})
                    => EventIdsOf(new_goals') = << 4 >>]_vars

\* The third tick of the scenario: goals 1 and 2 were returned and sent in an
\* earlier tick, the opponent's goal 3 never, and goal 4 was just returned.
C9_Witness ==
    /\ feed[1] = Append(Snapshot3, Play(4, "goal", 4))
    /\ pc = "send"
    /\ EventIdsOf(new_goals) = << 4 >>
    /\ tick_log = << [game |-> 1, outcome |-> "returned", goals |-> 1] >>
    /\ notified_goals[1] = {1, 2, 4}
    /\ sms_count[1][1] = 1 /\ sms_count[1][2] = 1 /\ sms_count[1][3] = 0
    /\ ret_count[1][4] = 1

\* The feed of g is the snapshot of g's last completed scan plus one trailing
\* goal event.
OneGoalAdded(g) ==
    /\ g \in DOMAIN scanned
    /\ Len(feed[g]) = scanned[g] + 1
    /\ Last(feed[g]).typeDescKey = "goal"

\* C10 as stated: a successful call on the snapshot plus one trailing goal
\* event returns exactly that event.
C10_IncrementalAnyGoal ==
    [][\A g \in Games :
          (Called(g, "returned") /\ OneGoalAdded(g)) =>
              EventIdsOf(new_goals') = << Last(feed[g]).eventId >>]_vars

\* C10 amended: it returns exactly that event when the favorite team owns it,
\* and nothing when another team owns it.
C10_IncrementalFavoriteGoal ==
    [][\A g \in Games :
          (Called(g, "returned") /\ OneGoalAdded(g)) =>
              IF OwnedByFavorite(g, Last(feed[g]))
              THEN EventIdsOf(new_goals') = << Last(feed[g]).eventId >>
              ELSE EventIdsOf(new_goals') = << >>]_vars

\* Game 1 was scanned with favorite goal 1 in its feed (returned, sent), then
\* favorite goal 2 was added and the next scan returned goal 2 alone.
C10_Witness ==
    /\ Len(feed[1]) = 2
    /\ 1 \in DOMAIN scanned /\ scanned[1] = 2
    /\ pc = "send"
    /\ EventIdsOf(new_goals) = << 2 >>
    /\ sms_count[1][1] = 1
    /\ ret_count[1][2] = 1

-----------------------------------------------------------------------------
(* The active-game filter and the scoreboard request *)

\* The favorite team is the away or the home side of game g.
FavoriteSide(g) ==
    \/ GameInfo(g).awayTeam.abbrev = favorite_team
    \/ GameInfo(g).homeTeam.abbrev = favorite_team

\* This step is the tick's scoreboard request, and it was answered.
ScoreboardRead == pc = "top" /\ scoreboard' = "ok"

\* This step is a check_for_goals call for game g.
CalledFor(g) == Called(g, "returned") \/ Called(g, "raised")

\* C11: a tick that reads the scoreboard selects exactly the games in which
\* the favorite team is the away or home side and whose gameState, as that
\* scoreboard reports it, is LIVE or CRIT; check_for_goals is called only for
\* games the tick selected, so never for a FUT, FINAL or non-favorite game.
C11_ActiveGameFilter ==
    [][/\ ScoreboardRead =>
            \A g \in Games :
                g \in Range(active_games') <=>
                    (FavoriteSide(g) /\ gameState[g] \in {"LIVE", "CRIT"})
       /\ \A g \in Games : CalledFor(g) => g \in Range(active_games)]_vars

\* A tick read the scoreboard with game 1 in CRIT, game 2 still FUT and the
\* non-favorite game 3 LIVE: it selected and checked game 1 alone.
C11_Witness ==
    /\ pc = "sleep"
    /\ scoreboard = "ok"
    /\ gameState[1] = "CRIT" /\ gameState[2] = "FUT" /\ gameState[3] = "LIVE"
    /\ active_games = << 1 >>
    /\ Len(tick_log) = 1 /\ tick_log[1].game = 1

\* C12: a tick whose scoreboard request failed or was answered with a
\* malformed document selects no game, calls check_for_goals for none, and
\* goes on to the sleep: the loop is not left.
C12_ScoreboardFailure ==
    scoreboard \in {"error", "malformed"} =>
        /\ pc \in {"sleep", "stopped"}
        /\ escaped = ""
        /\ active_games = << >>
        /\ tick_log = << >>

-----------------------------------------------------------------------------
(* Order of dispatch *)

\* The place of game g in the scoreboard, and of event e in the feed of g.
ScoreboardIndex(g) == CHOOSE i \in DOMAIN Scoreboard : Scoreboard[i].id = g

FeedIndex(g, e) == CHOOSE i \in DOMAIN feed[g] : feed[g][i].eventId = e

\* This step hands event e of game g to send_sms.
Dispatched(g, e) == sms_count'[g][e] = sms_count[g][e] + 1

\* Event e of game g was returned by check_for_goals and not yet dispatched.
Waiting(g, e) == ret_count[g][e] > sms_count[g][e]

\* C13: the games of a tick are checked in scoreboard order, and a goal is
\* dispatched while its game is the current one, when no goal of any other
\* game of the tick is waiting and every other waiting goal of its game comes
\* later in the play list.
C13_OrderPreservation ==
    [][/\ \A i \in DOMAIN tick_log' : tick_log'[i].game = active_games'[i]
       /\ \A i, j \in DOMAIN active_games' :
              i < j => ScoreboardIndex(active_games'[i])
                          < ScoreboardIndex(active_games'[j])
       /\ \A g \in Games : \A e \in EventIds :
              Dispatched(g, e) =>
                  /\ g = Last(tick_log).game
                  /\ \A h \in Games \ {g} : \A d \in EventIds : ~Waiting(h, d)
                  /\ \A d \in EventIds \ {e} :
                         Waiting(g, d) => FeedIndex(g, e) < FeedIndex(g, d)]_vars

\* One tick checked game 1 and then game 2, each returned its goal 1, and the
\* goal of game 1 was dispatched before the goal of game 2.
C13_Witness ==
    /\ pc = "sleep"
    /\ active_games = << 1, 2 >>
    /\ Len(tick_log) = 2
    /\ tick_log[1].goals = 1 /\ tick_log[2].goals = 1
    /\ sms_count[1][1] = 1 /\ sms_count[2][1] = 1
    /\ last_sms.game = 2

-----------------------------------------------------------------------------
(* The shape of notified_goals over time *)

\* C14: in every step the games that have an entry in notified_goals keep it
\* and every entry keeps its EventIds: entries and their sets only grow.
C14_MonotonicNotified ==
    [][\A g \in DOMAIN notified_goals :
          /\ g \in DOMAIN notified_goals'
          /\ notified_goals[g] \subseteq notified_goals'[g]]_vars

\* Game 1 is over and no longer checked; a later tick checked game 2 alone and
\* gave it an entry, and the entry of game 1 is still there with its goal.
C14_Witness ==
    /\ pc = "sleep"
    /\ gameState[1] = "FINAL"
    /\ active_games = << 2 >>
    /\ Len(tick_log) = 1 /\ tick_log[1].goals = 1
    /\ DOMAIN notified_goals = {1, 2}
    /\ notified_goals[1] = {1}
    /\ notified_goals[2] = {1}

-----------------------------------------------------------------------------
(* check_for_goals on a game without the favorite team *)

\* The last check_for_goals call was for game g.
LastCallFor(g) == Len(tick_log) = 1 /\ tick_log[1].game = g

\* C15: a check_for_goals call whose play-by-play names the favorite team on
\* neither side returns the empty list and leaves notified_goals as it was:
\* no entry changes and none, not even an empty one, is created for the game.
C15_NonFavoriteGame ==
    [][\A g \in Games :
          (LastCallFor(g)' /\ ~FavoriteSide(g)) =>
              /\ new_goals' = << >>
              /\ notified_goals' = notified_goals
              /\ g \notin DOMAIN notified_goals']_vars

\* Game 1 has a notified goal; check_for_goals was then called for game 3,
\* whose feed holds two goals: it returned nothing and game 3 has no entry.
C15_Witness ==
    /\ LastCallFor(3)
    /\ tick_log[1].outcome = "returned"
    /\ Len(GoalsOf(feed[3])) = 2
    /\ new_goals = << >>
    /\ DOMAIN notified_goals = {1}
    /\ notified_goals[1] = {1}

-----------------------------------------------------------------------------
(* The favorite team's id in each game *)

\* The goals in the feed of game g credited to team id and not yet notified.
UnnotifiedGoalsOf(g, id) ==
    SelectSeq(feed[g], LAMBDA p : /\ p.typeDescKey = "goal"
                                  /\ p.eventOwnerTeamId = id
                                  /\ ~IsNotified(g, p.eventId))

\* C16: a successful check_for_goals call reports the goals credited to the
\* away record's id when the favorite team is the away side of that game, and
\* those credited to the home record's id when it is the home side; goals
\* credited to the other side's id are not reported.
C16_PerGameId ==
    [][\A g \in Games :
          Called(g, "returned") =>
              /\ GameInfo(g).awayTeam.abbrev = favorite_team =>
                     EventIdsOf(new_goals')
                         = EventIdsOf(UnnotifiedGoalsOf(g, GameInfo(g).awayTeam.id))
              /\ GameInfo(g).homeTeam.abbrev = favorite_team =>
                     EventIdsOf(new_goals')
                         = EventIdsOf(UnnotifiedGoalsOf(g, GameInfo(g).homeTeam.id))]_vars

\* Game 1 has the favorite team as away side (id 4, home id 1): with a goal of
\* the home side and then a goal of the away side in its feed, the call
\* returned the second alone.
C16_Witness ==
    /\ pc = "send"
    /\ Head(todo_games) = 1
    /\ Len(feed[1]) = 2
    /\ feed[1][1].typeDescKey = "goal" /\ feed[1][1].eventOwnerTeamId = 1
    /\ feed[1][2].typeDescKey = "goal" /\ feed[1][2].eventOwnerTeamId = 4
    /\ EventIdsOf(new_goals) = << 2 >>
    /\ ret_count[1][1] = 0

-----------------------------------------------------------------------------
(* Startup *)

\* C17: a process started without the SMTP credentials, or with credentials
\* or a target that are not valid, ends before the first tick of
\* monitor_games: it requests no scoreboard and attempts no SMS.
C17_ConfigErrorsFatal ==
    environ # "complete" =>
        /\ scoreboard = "none"
        /\ tick_log = << >>
        /\ last_sms = NoSms

-----------------------------------------------------------------------------
(* notified_goals against what check_for_goals returned *)

\* C18: while the process runs, the EventIds in notified_goals[g] are exactly
\* the EventIds of the goals check_for_goals has returned for game g so far.
C18_MarkedEqualsReturned ==
    Running =>
        \A g \in Games : \A e \in EventIds :
            IsNotified(g, e) <=> ret_count[g][e] >= 1

-----------------------------------------------------------------------------
(* One game's call and the other games' entries *)

\* The entry of game h, or the lack of one, is the same after the step.
EntryUnchanged(h) ==
    /\ h \in DOMAIN notified_goals' <=> h \in DOMAIN notified_goals
    /\ h \in DOMAIN notified_goals => notified_goals'[h] = notified_goals[h]

\* C19: a check_for_goals call for game g, however it ends, leaves the entry
\* of every other game as it was; and EventIds count per game: a successful
\* call returns a favorite-team goal of g that is not notified for g also
\* when the same EventId is already notified for another game.
C19_PerGameIsolation ==
    [][\A g \in Games :
          /\ (pc = "check" /\ Head(todo_games) = g) =>
                 \A h \in Games \ {g} : EntryUnchanged(h)
          /\ Called(g, "returned") =>
                 \A i \in DOMAIN feed[g] :
                    ( /\ feed[g][i].typeDescKey = "goal"
                      /\ OwnedByFavorite(g, feed[g][i])
                      /\ ~IsNotified(g, feed[g][i].eventId)
                      /\ \E h \in Games \ {g} : IsNotified(h, feed[g][i].eventId) )
                    => feed[g][i].eventId \in Range(EventIdsOf(new_goals'))]_vars

\* Event 1 of game 1 was notified and sent in an earlier tick; the call for
\* game 2 then returned the goal of game 2 that has EventId 1 as well, and
\* the entry of game 1 is what it was.
C19_Witness ==
    /\ pc = "send"
    /\ Head(todo_games) = 2
    /\ active_games = << 2 >>
    /\ EventIdsOf(new_goals) = << 1 >>
    /\ sms_count[1][1] = 1
    /\ DOMAIN notified_goals = {1, 2}
    /\ notified_goals[1] = {1}
    /\ notified_goals[2] = {1}

=============================================================================
